---- MODULE Spec2Model ----
(***************************************************************************)
(* Resume analyzer (src/app.py): text normalizer, safe JSON parser,        *)
(* Gemini analysis client and the Streamlit script that drives them.       *)
(*                                                                         *)
(* Text is a sequence of one-character strings.  A Python value is a       *)
(* tagged record: None, str, int, float, bool, list, dict.  A call that    *)
(* may raise yields an outcome [exc, v]: exc = "none" and the returned     *)
(* value v, or the name of the exception raised.                           *)
(***************************************************************************)
EXTENDS Integers, Sequences, FiniteSets, TLC

VARIABLES client, pc, resume_file, job_description, resume_text, jd_text,
          prompt, llm_calls, response, parsed, result, screen, frames

vars == <<client, pc, resume_file, job_description, resume_text, jd_text,
          prompt, llm_calls, response, parsed, result, screen, frames>>

\* frames: the Python frames on the stack where safe_json_parse is called
\* (those of whatever runs the script, the module's and, in a run of the
\* script, the one of analyze_with_gemini); a run that does not reach the
\* call leaves it as it is

(***************************************************************************)
(* Python values                                                           *)
(***************************************************************************)
None == [t |-> "None"]
Unset == [t |-> "unset"]
PyStr(s) == [t |-> "str", v |-> s]
PyInt(n) == [t |-> "int", v |-> n]
PyFloat(n) == [t |-> "float", v |-> n]
PyBool(b) == [t |-> "bool", v |-> b]
PyList(s) == [t |-> "list", v |-> s]
PyDict(f) == [t |-> "dict", v |-> f]

Return(v) == [exc |-> "none", v |-> v]
Raise(e) == [exc |-> e, v |-> None]

\* bool(x) of an optional string: None and "" are falsy
Truthy(x) == x.t = "str" /\ Len(x.v) > 0

(***************************************************************************)
(* String primitives: str.find, str.rfind, slicing (0-based, as in Python) *)
(***************************************************************************)
\* the first index in lo..hi whose character is in S (member) or is not in S
\* (~member), hi + 1 when there is none; found by halving the range
RECURSIVE FirstAt(_, _, _, _, _)
FirstAt(s, lo, hi, S, member) ==
  IF lo > hi THEN hi + 1
  ELSE IF lo = hi THEN (IF (s[lo] \in S) = member THEN lo ELSE hi + 1)
  ELSE
    LET mid == (lo + hi) \div 2
        left == FirstAt(s, lo, mid, S, member)
    IN IF left <= mid THEN left ELSE FirstAt(s, mid + 1, hi, S, member)

\* the last index in lo..hi whose character is c, lo - 1 when there is none
RECURSIVE LastAt(_, _, _, _)
LastAt(s, lo, hi, c) ==
  IF lo > hi THEN lo - 1
  ELSE IF lo = hi THEN (IF s[lo] = c THEN lo ELSE lo - 1)
  ELSE
    LET mid == (lo + hi) \div 2
        right == LastAt(s, mid + 1, hi, c)
    IN IF right > mid THEN right ELSE LastAt(s, lo, mid, c)

find(s, c) ==
  LET k == FirstAt(s, 1, Len(s), {c}, TRUE)
  IN IF k > Len(s) THEN -1 ELSE k - 1

rfind(s, c) == LastAt(s, 1, Len(s), c) - 1

\* one bound of a slice: negative counts from the end, then clamped to 0..len
SliceIndex(n, i) ==
  LET k == IF i < 0 THEN i + n ELSE i
  IN IF k < 0 THEN 0 ELSE IF k > n THEN n ELSE k

\* s[a:b]
slice(s, a, b) == SubSeq(s, SliceIndex(Len(s), a) + 1, SliceIndex(Len(s), b))

(***************************************************************************)
(* json.loads: the decoder of the standard library, on text without        *)
(* backslash, sign, fraction point or the NaN/Infinity literals.  A number *)
(* is then a natural number, with or without an exponent.                  *)
(***************************************************************************)
\* sys.getrecursionlimit() of the interpreter
RecursionLimit == 1000

\* the frames a call of safe_json_parse puts on the stack before the scanner
\* runs: safe_json_parse, json.loads, JSONDecoder.decode, raw_decode
DecoderFrames == 4

\* the scanner enters one recursion level per nested array or object; the
\* n-th nested container raises RecursionError when the frames in use and n
\* together reach the limit.  With d containers open, the number of further
\* containers whose last one raises:
OpenersUntilRecursionError(d) == RecursionLimit - (frames + DecoderFrames) - d

\* the scanner reports every error but "Expecting value" by building the
\* JSONDecodeError where it stands, inside the open containers; building it
\* takes this many levels more
ErrorFrames == 3

JsonWS == {" ", "\t", "\n", "\r"}
Digits == {"0", "1", "2", "3", "4", "5", "6", "7", "8", "9"}
\* characters below U+0020, which strict mode rejects inside a string (the
\* ones text is built from here)
ControlChars == {"\t", "\n", "\r", "\f"}

DigitVal(c) ==
  CASE c = "0" -> 0 [] c = "1" -> 1 [] c = "2" -> 2 [] c = "3" -> 3
    [] c = "4" -> 4 [] c = "5" -> 5 [] c = "6" -> 6 [] c = "7" -> 7
    [] c = "8" -> 8 [] c = "9" -> 9

\* scanner results: a value and the index after it, or the exception raised
Fail ==
  [ok |-> FALSE, v |-> None, end |-> 0, err |-> "JSONDecodeError", kind |-> "", n |-> 0]
TooDeep(kind) ==
  [ok |-> FALSE, v |-> None, end |-> 0, err |-> "RecursionError", kind |-> kind, n |-> 0]
\* the ValueError of an integer of n digits, more than int() converts
TooLong(n) ==
  [ok |-> FALSE, v |-> None, end |-> 0, err |-> "ValueError", kind |-> "", n |-> n]
Ok(v, e) == [ok |-> TRUE, v |-> v, end |-> e, err |-> "none", kind |-> "", n |-> 0]

\* an error the scanner builds inside d open containers: the JSONDecodeError,
\* or the RecursionError of building it, raised by a call or by a frame
ErrMsg(d) ==
  LET left == OpenersUntilRecursionError(d)
  IN IF left > ErrorFrames THEN Fail
     ELSE IF left = ErrorFrames - 1 THEN TooDeep("frame")
     ELSE TooDeep("call")

SkipWS(s, i) == FirstAt(s, i, Len(s), JsonWS, FALSE)

\* index after the run of digits starting at i
DigitsEnd(s, i) == FirstAt(s, i, Len(s), Digits, FALSE)

HasLiteral(s, i, w) == i + Len(w) - 1 <= Len(s) /\ SubSeq(s, i, i + Len(w) - 1) = w

\* py_scanstring after the opening quote (strict: no control characters)
ScanString(s, i) ==
  LET k == FirstAt(s, i, Len(s), {"\""} \cup ControlChars, TRUE)
  IN IF k > Len(s) THEN Fail
     ELSE IF s[k] = "\"" THEN Ok(SubSeq(s, i, k - 1), k + 1)
     ELSE Fail

(***************************************************************************)
(* Numbers.  A natural number of at most NativeDigits digits is an         *)
(* integer of the model; a longer one is kept as its decimal digits, a     *)
(* sequence without leading zero.  Arithmetic on the longer ones is done   *)
(* on sequences of the digits' values.                                     *)
(***************************************************************************)
NativeDigits == 9

\* sys.get_int_max_str_digits() of the interpreter
IntMaxStrDigits == 4300

\* a double has 53 bits of mantissa; 2^1024 and above is inf; a number of
\* more than 309 digits is above 2^1024
DoubleMantissaBits == 53
DoubleMaxExponent == 1024
DoubleMaxDigits == 309

\* 2^53
TwoToMantissaBits == <<9, 0, 0, 7, 1, 9, 9, 2, 5, 4, 7, 4, 0, 9, 9, 2>>

DigitChar(k) ==
  CASE k = 0 -> "0" [] k = 1 -> "1" [] k = 2 -> "2" [] k = 3 -> "3"
    [] k = 4 -> "4" [] k = 5 -> "5" [] k = 6 -> "6" [] k = 7 -> "7"
    [] k = 8 -> "8" [] k = 9 -> "9"

\* value of the digits s[i..j-1]
RECURSIVE DigitsValue(_, _, _)
DigitsValue(s, i, j) ==
  IF i >= j THEN 0 ELSE DigitsValue(s, i, j - 1) * 10 + DigitVal(s[j - 1])

\* str(n) of a natural number
RECURSIVE Str(_)
Str(n) == IF n < 10 THEN <<DigitChar(n)>> ELSE Append(Str(n \div 10), DigitChar(n % 10))

\* the number written by the digits ds (no leading zero)
Num(ds) == IF Len(ds) <= NativeDigits THEN DigitsValue(ds, 1, Len(ds) + 1) ELSE ds

\* d \div 2, d * 2, d + 1, d < e and "d is odd" on sequences of digit values
Half(d) ==
  LET h == [i \in 1..Len(d) |->
              (d[i] + (IF i > 1 /\ d[i - 1] % 2 = 1 THEN 10 ELSE 0)) \div 2]
  IN SubSeq(h, IF Len(d) > 1 /\ h[1] = 0 THEN 2 ELSE 1, Len(d))

Twice(d) ==
  LET t == [i \in 1..Len(d) |->
              ((2 * d[i]) % 10) + (IF i < Len(d) /\ d[i + 1] >= 5 THEN 1 ELSE 0)]
  IN (IF d[1] >= 5 THEN <<1>> ELSE << >>) \o t

Succ(d) ==
  LET keep == {i \in 1..Len(d) : d[i] # 9}
      p == IF keep = {} THEN 0 ELSE CHOOSE i \in keep : \A j \in keep : j <= i
      t == [i \in 1..Len(d) |-> IF i < p THEN d[i] ELSE IF i = p THEN d[i] + 1 ELSE 0]
  IN (IF p = 0 THEN <<1>> ELSE << >>) \o t

Less(d, e) ==
  \/ Len(d) < Len(e)
  \/ /\ Len(d) = Len(e)
     /\ \E i \in 1..Len(d) : d[i] < e[i] /\ \A j \in 1..(i - 1) : d[j] = e[j]

Odd(d) == d[Len(d)] % 2 = 1

\* one bit of x.d is shifted out, unless x.d is below 2^53 already: s counts
\* the bits shifted out, round is the last of them, sticky says whether any
\* of the others was set
ShiftOut(x) ==
  IF Less(x.d, TwoToMantissaBits) THEN x
  ELSE [d |-> Half(x.d), s |-> x.s + 1, round |-> Odd(x.d),
        sticky |-> x.sticky \/ x.round]

\* ShiftOut n times, Twice n times: the first half of the steps, then (the
\* value of the first half being there) the second half
RECURSIVE ShiftDown(_, _), TwiceUp(_, _)
ShiftDown(x, n) ==
  IF n = 0 THEN x
  ELSE IF n = 1 THEN ShiftOut(x)
  ELSE LET half == ShiftDown(x, n \div 2)
       IN IF half.s >= 0 THEN ShiftDown(half, n - (n \div 2)) ELSE half

TwiceUp(d, n) ==
  IF n = 0 THEN d
  ELSE IF n = 1 THEN Twice(d)
  ELSE LET half == TwiceUp(d, n \div 2)
       IN IF Len(half) > 0 THEN TwiceUp(half, n - (n \div 2)) ELSE half

\* the double nearest to the natural number written by the digits ds (ties
\* to the even mantissa), as the number it is exactly, or "inf".  A number of
\* at most DoubleMaxDigits digits is below 2^(DoubleMaxExponent + 3)
RoundToDouble(ds) ==
  LET sh == ShiftDown([d |-> << >> \o [i \in 1..Len(ds) |-> DigitVal(ds[i])], s |-> 0,
                       round |-> FALSE, sticky |-> FALSE], DoubleMaxExponent)
      q == IF sh.round /\ (sh.sticky \/ Odd(sh.d)) THEN Succ(sh.d) ELSE sh.d
      top == DoubleMaxExponent - DoubleMantissaBits
      exact == TwiceUp(q, sh.s)
  IN IF sh.s > top \/ (sh.s = top /\ q = TwoToMantissaBits) THEN "inf"
     ELSE Num(<< >> \o [i \in 1..Len(exact) |-> DigitChar(exact[i])])

\* float() of the text m, "e", x: m a natural number, x digits
FloatOf(m, x) ==
  LET xs == SubSeq(x, FirstAt(x, 1, Len(x), {"0"}, FALSE), Len(x))
      e == DigitsValue(xs, 1, Len(xs) + 1)
  IN IF m = <<"0">> THEN 0
     ELSE IF Len(xs) > NativeDigits THEN "inf"
     ELSE IF Len(m) + e > DoubleMaxDigits THEN "inf"
     ELSE RoundToDouble(m \o [i \in 1..e |-> "0"])

\* the number at i: (0|[1-9][0-9]*)([eE][0-9]+)?, a float with the exponent
\* and an int without
ScanNumber(s, i) ==
  LET ie == IF s[i] = "0" THEN i + 1 ELSE DigitsEnd(s, i)
      hasExp == /\ ie + 1 <= Len(s)
                /\ s[ie] \in {"e", "E"}
                /\ s[ie + 1] \in Digits
      ee == DigitsEnd(s, ie + 1)
  IN IF hasExp
     THEN Ok(PyFloat(FloatOf(SubSeq(s, i, ie - 1), SubSeq(s, ie + 1, ee - 1))), ee)
     ELSE IF ie - i > IntMaxStrDigits THEN TooLong(ie - i)
     ELSE Ok(PyInt(Num(SubSeq(s, i, ie - 1))), ie)

(***************************************************************************)
(* The descent of the scanner from a value position: as long as the text   *)
(* goes on with "[" or with "{", a key and ":", each a container nested in *)
(* the one before, the scanner only recurses and cannot fail.  The descent *)
(* is followed by halving the text, in states "value" (a value is          *)
(* expected), "key" (after "{"), "string" (inside the key) and "colon"     *)
(* (after the key).  It ends in "hit" (the m-th container is entered), in  *)
(* "bad" (a character no value, key or colon can start with: the scanner   *)
(* fails there, in the state "at"), in "stop" (the text goes on otherwise) *)
(* or in the state the text ends in.                                       *)
(***************************************************************************)
DescentTo(st) == [st |-> st, n |-> 0, kind |-> "", at |-> ""]
DescentBad(q) == [st |-> "bad", n |-> 0, kind |-> "", at |-> q]

DescentStep(q, c, m) ==
  IF q = "value" THEN
    IF c \in JsonWS THEN DescentTo("value")
    ELSE IF c = "[" THEN
      [st |-> IF m <= 1 THEN "hit" ELSE "value", n |-> 1, kind |-> "array",
       at |-> ""]
    ELSE IF c = "{" THEN
      [st |-> IF m <= 1 THEN "hit" ELSE "key", n |-> 1, kind |-> "object",
       at |-> ""]
    ELSE IF c \in Digits \cup {"\"", "n", "t", "f", "]"} THEN DescentTo("stop")
    ELSE DescentBad(q)
  ELSE IF q = "key" THEN
    IF c \in JsonWS THEN DescentTo("key")
    ELSE IF c = "\"" THEN DescentTo("string")
    ELSE IF c = "}" THEN DescentTo("stop")
    ELSE DescentBad(q)
  ELSE IF q = "string" THEN
    IF c = "\"" THEN DescentTo("colon")
    ELSE IF c \in ControlChars THEN DescentBad(q)
    ELSE DescentTo("string")
  ELSE
    IF c \in JsonWS THEN DescentTo("colon")
    ELSE IF c = ":" THEN DescentTo("value")
    ELSE DescentBad(q)

\* the descent over s[lo..hi] from state q, m containers away from the limit:
\* the state it ends in, the containers entered, the kind of the last one
RECURSIVE Descent(_, _, _, _, _)
Descent(s, lo, hi, q, m) ==
  IF lo > hi THEN DescentTo(q)
  ELSE IF lo = hi THEN DescentStep(q, s[lo], m)
  ELSE
    LET mid == (lo + hi) \div 2
        left == Descent(s, lo, mid, q, m)
    IN IF left.st \in {"stop", "bad", "hit"} THEN left
       ELSE
         LET right == Descent(s, mid + 1, hi, left.st, m - left.n)
         IN [st |-> right.st, n |-> left.n + right.n,
             kind |-> IF right.n > 0 THEN right.kind ELSE left.kind,
             at |-> right.at]

RECURSIVE ScanOnce(_, _, _), JSONObject(_, _, _), ObjectItems(_, _, _, _),
          JSONArray(_, _, _), ArrayItems(_, _, _, _)

\* a container opens at i, inside d open containers: the descent from there
\* raises RecursionError, fails on a character or at the end of the text
\* ("Expecting value" where a value is expected, an error built inside the
\* containers entered otherwise), or the container is parsed
ScanContainer(s, i, d) ==
  LET run == Descent(s, i, Len(s), "value", OpenersUntilRecursionError(d))
      failedIn == IF run.st = "bad" THEN run.at ELSE run.st
  IN IF run.st = "hit" THEN TooDeep(run.kind)
     ELSE IF run.st = "stop" THEN
       IF s[i] = "{" THEN JSONObject(s, i + 1, d + 1) ELSE JSONArray(s, i + 1, d + 1)
     ELSE IF failedIn = "value" THEN Fail
     ELSE ErrMsg(d + run.n)

\* scanner.scan_once at i, inside d open containers
ScanOnce(s, i, d) ==
  IF i > Len(s) THEN Fail
  ELSE IF s[i] = "\"" THEN
    LET r == ScanString(s, i + 1)
    IN IF r.ok THEN Ok(PyStr(r.v), r.end) ELSE ErrMsg(d)
  ELSE IF s[i] \in {"{", "["} THEN ScanContainer(s, i, d)
  ELSE IF HasLiteral(s, i, <<"n", "u", "l", "l">>) THEN Ok(None, i + 4)
  ELSE IF HasLiteral(s, i, <<"t", "r", "u", "e">>) THEN Ok(PyBool(TRUE), i + 4)
  ELSE IF HasLiteral(s, i, <<"f", "a", "l", "s", "e">>) THEN Ok(PyBool(FALSE), i + 5)
  ELSE IF s[i] \in Digits THEN ScanNumber(s, i)
  ELSE Fail

\* decoder.JSONObject after the opening brace, the d-th open container
JSONObject(s, i, d) ==
  LET j == SkipWS(s, i)
  IN IF j > Len(s) THEN ErrMsg(d)
     ELSE IF s[j] = "}" THEN Ok(PyDict(<< >>), j + 1)
     ELSE IF s[j] # "\"" THEN ErrMsg(d)
     ELSE ObjectItems(s, j + 1, << >>, d)

\* one "key": value pair starting after the key's opening quote; a repeated
\* key keeps its last value
ObjectItems(s, i, pairs, d) ==
  LET k == ScanString(s, i)
  IN IF ~k.ok THEN ErrMsg(d)
     ELSE
       LET c == SkipWS(s, k.end)
       IN IF c > Len(s) \/ s[c] # ":" THEN ErrMsg(d)
          ELSE
            LET val == ScanOnce(s, SkipWS(s, c + 1), d)
            IN IF ~val.ok THEN val
               ELSE
                 LET e == SkipWS(s, val.end)
                     more == [x \in (DOMAIN pairs) \cup {k.v} |->
                                IF x = k.v THEN val.v ELSE pairs[x]]
                 IN IF e > Len(s) THEN ErrMsg(d)
                    ELSE IF s[e] = "}" THEN Ok(PyDict(more), e + 1)
                    ELSE IF s[e] # "," THEN ErrMsg(d)
                    ELSE
                      LET q == SkipWS(s, e + 1)
                      IN IF q > Len(s) \/ s[q] # "\"" THEN ErrMsg(d)
                         ELSE ObjectItems(s, q + 1, more, d)

\* decoder.JSONArray after the opening bracket, the d-th open container
JSONArray(s, i, d) ==
  LET j == SkipWS(s, i)
  IN IF j <= Len(s) /\ s[j] = "]" THEN Ok(PyList(<< >>), j + 1)
     ELSE ArrayItems(s, j, << >>, d)

ArrayItems(s, i, items, d) ==
  LET val == ScanOnce(s, i, d)
  IN IF ~val.ok THEN val
     ELSE
       LET e == SkipWS(s, val.end)
           more == Append(items, val.v)
       IN IF e > Len(s) THEN ErrMsg(d)
          ELSE IF s[e] = "]" THEN Ok(PyList(more), e + 1)
          ELSE IF s[e] # "," THEN ErrMsg(d)
          ELSE ArrayItems(s, SkipWS(s, e + 1), more, d)

RecursionErrorHead ==
  <<"m","a","x","i","m","u","m"," ","r","e","c","u","r","s","i","o","n"," ",
    "d","e","p","t","h"," ","e","x","c","e","e","d","e","d">>
WhileDecodingArray ==
  <<" ","w","h","i","l","e"," ","d","e","c","o","d","i","n","g"," ","a"," ",
    "J","S","O","N"," ","a","r","r","a","y"," ","f","r","o","m"," ","a"," ",
    "u","n","i","c","o","d","e"," ","s","t","r","i","n","g">>
WhileDecodingObject ==
  <<" ","w","h","i","l","e"," ","d","e","c","o","d","i","n","g"," ","a"," ",
    "J","S","O","N"," ","o","b","j","e","c","t"," ","f","r","o","m"," ","a",
    " ","u","n","i","c","o","d","e"," ","s","t","r","i","n","g">>
WhileCalling ==
  <<" ","w","h","i","l","e"," ","c","a","l","l","i","n","g"," ","a"," ","P",
    "y","t","h","o","n"," ","o","b","j","e","c","t">>

\* str(e) of the RecursionError raised on entering an array or an object, by
\* a call or by a frame
RecursionErrorText(kind) ==
  RecursionErrorHead \o
    (CASE kind = "array" -> WhileDecodingArray
       [] kind = "object" -> WhileDecodingObject
       [] kind = "call" -> WhileCalling
       [] kind = "frame" -> << >>)

ExceedsTheLimit ==
  <<"E","x","c","e","e","d","s"," ","t","h","e"," ","l","i","m","i","t"," ",
    "(">>
DigitsForConversion ==
  <<" ","d","i","g","i","t","s",")"," ","f","o","r"," ","i","n","t","e","g",
    "e","r"," ","s","t","r","i","n","g"," ","c","o","n","v","e","r","s","i",
    "o","n",":"," ","v","a","l","u","e"," ","h","a","s"," ">>
UseSetIntMaxStrDigits ==
  <<" ","d","i","g","i","t","s",";"," ","u","s","e"," ","s","y","s",".","s",
    "e","t","_","i","n","t","_","m","a","x","_","s","t","r","_","d","i","g",
    "i","t","s","(",")"," ","t","o"," ","i","n","c","r","e","a","s","e"," ",
    "t","h","e"," ","l","i","m","i","t">>

\* str(e) of the ValueError int() raises for n digits
IntMaxStrDigitsText(n) ==
  ExceedsTheLimit \o Str(IntMaxStrDigits) \o DigitsForConversion \o Str(n)
    \o UseSetIntMaxStrDigits

\* decode after raw_decode: r is what scan_once gave at the first character
\* that is not whitespace
decode_rest(s, r) ==
  IF r.err = "RecursionError"
    THEN [exc |-> "RecursionError", v |-> None, msg |-> RecursionErrorText(r.kind)]
  ELSE IF r.err = "ValueError"
    THEN [exc |-> "ValueError", v |-> None, msg |-> IntMaxStrDigitsText(r.n)]
  ELSE IF r.ok /\ SkipWS(s, r.end) = Len(s) + 1 THEN Return(r.v)
  ELSE Raise("JSONDecodeError")

\* JSONDecoder.decode: one value, surrounded by whitespace only
decode(s) == decode_rest(s, ScanOnce(s, SkipWS(s, 1), 0))

\* json.loads(x): a str is decoded, anything else is a TypeError
json_loads(x) == IF x.t = "str" THEN decode(x.v) ELSE Raise("TypeError")

(***************************************************************************)
(* Text constants of the program                                           *)
(***************************************************************************)
\* str(e) of the AttributeError of None.models
NoneHasNoModelsText ==
  <<"'","N","o","n","e","T","y","p","e","'"," ","o","b","j","e","c","t"," ",
    "h","a","s"," ","n","o"," ","a","t","t","r","i","b","u","t","e"," ","'",
    "m","o","d","e","l","s","'">>
K_match_score ==
  <<"m","a","t","c","h","_","s","c","o","r","e">>
K_resume_skills ==
  <<"r","e","s","u","m","e","_","s","k","i","l","l","s">>
K_job_required_skills ==
  <<"j","o","b","_","r","e","q","u","i","r","e","d","_","s","k","i","l","l",
    "s">>
K_missing_skills ==
  <<"m","i","s","s","i","n","g","_","s","k","i","l","l","s">>
K_suggestions ==
  <<"s","u","g","g","e","s","t","i","o","n","s">>
NotInitializedText ==
  <<"G","e","m","i","n","i"," ","c","l","i","e","n","t"," ","n","o","t"," ",
    "i","n","i","t","i","a","l","i","z","e","d",".">>
AnalysisFailedText ==
  <<"A","n","a","l","y","s","i","s"," ","f","a","i","l","e","d",":"," ">>
InvalidJsonText ==
  <<"I","n","v","a","l","i","d"," ","J","S","O","N"," ","r","e","t","u","r",
    "n","e","d"," ","b","y"," ","G","e","m","i","n","i">>
\* str(e) of the TypeError json.loads raises for None
TypeErrorText ==
  <<"t","h","e"," ","J","S","O","N"," ","o","b","j","e","c","t"," ","m","u",
    "s","t"," ","b","e"," ","s","t","r",","," ","b","y","t","e","s"," ","o",
    "r"," ","b","y","t","e","a","r","r","a","y",","," ","n","o","t"," ","N",
    "o","n","e","T","y","p","e">>
\* the prompt f-string: up to the resume text, between the two texts, after
PromptHead ==
  <<"\n","Y","o","u"," ","a","r","e"," ","a","n"," ","A","T","S"," ","r",
    "e","s","u","m","e"," ","a","n","a","l","y","z","e","r",".","\n","\n",
    "S","T","R","I","C","T"," ","R","U","L","E","S",":","\n","-"," ","R",
    "e","s","p","o","n","d"," ","w","i","t","h"," ","O","N","L","Y"," ","v",
    "a","l","i","d"," ","J","S","O","N","\n","-"," ","N","o"," ","m","a",
    "r","k","d","o","w","n","\n","-"," ","N","o"," ","e","x","p","l","a",
    "n","a","t","i","o","n","s","\n","\n","J","S","O","N"," ","F","O","R",
    "M","A","T",":","\n","{","\n"," "," ","\"","m","a","t","c","h","_","s",
    "c","o","r","e","\"",":"," ","n","u","m","b","e","r",",","\n"," "," ",
    "\"","r","e","s","u","m","e","_","s","k","i","l","l","s","\"",":"," ",
    "[","]",",","\n"," "," ","\"","j","o","b","_","r","e","q","u","i","r",
    "e","d","_","s","k","i","l","l","s","\"",":"," ","[","]",",","\n"," ",
    " ","\"","m","i","s","s","i","n","g","_","s","k","i","l","l","s","\"",
    ":"," ","[","]",",","\n"," "," ","\"","s","u","g","g","e","s","t","i",
    "o","n","s","\"",":"," ","\"","\"","\n","}","\n","\n","R","E","S","U",
    "M","E",":","\n","\"","\"","\"">>
PromptMid ==
  <<"\"","\"","\"","\n","\n","J","O","B"," ","D","E","S","C","R","I","P",
    "T","I","O","N",":","\n","\"","\"","\"">>
PromptTail ==
  <<"\"","\"","\"","\n">>

(***************************************************************************)
(* Resume readers                                                          *)
(***************************************************************************)
RECURSIVE Concat(_)
Concat(parts) == IF parts = << >> THEN << >> ELSE Head(parts) \o Concat(Tail(parts))

RECURSIVE Join(_, _)
Join(sep, parts) ==
  IF parts = << >> THEN << >>
  ELSE IF Len(parts) = 1 THEN Head(parts)
  ELSE Head(parts) \o sep \o Join(sep, Tail(parts))

\* a file is [type, opens, parts]: its declared MIME type, whether the
\* library can open it, and its page texts (PDF) or paragraph texts (DOCX).
\* A file that does not open is not a PDF for fitz.open (FileDataError), not
\* a zip archive for Document, which is handed the uploaded file object
\* (zipfile's BadZipFile)
extract_pdf_text(file) ==
  IF file.opens THEN Return(PyStr(Concat(file.parts))) ELSE Raise("FileDataError")

extract_docx_text(file) ==
  IF file.opens THEN Return(PyStr(Join(<<"\n">>, file.parts))) ELSE Raise("BadZipFile")

(***************************************************************************)
(* Text cleaning                                                           *)
(***************************************************************************)
\* the characters \s matches and str.strip() removes, among those modelled
PyWS == {" ", "\t", "\n", "\r", "\f"}

\* index after the run of whitespace starting at i
RECURSIVE WSEnd(_, _)
WSEnd(s, i) == IF i <= Len(s) /\ s[i] \in PyWS THEN WSEnd(s, i + 1) ELSE i

\* re.sub(r"\s+", " ", s), from position i on
RECURSIVE SubWS(_, _)
SubWS(s, i) ==
  IF i > Len(s) THEN << >>
  ELSE IF s[i] \in PyWS THEN <<" ">> \o SubWS(s, WSEnd(s, i))
  ELSE <<s[i]>> \o SubWS(s, i + 1)

RECURSIVE lstrip(_)
lstrip(s) == IF s # << >> /\ Head(s) \in PyWS THEN lstrip(Tail(s)) ELSE s

RECURSIVE rstrip(_)
rstrip(s) ==
  IF s # << >> /\ s[Len(s)] \in PyWS THEN rstrip(SubSeq(s, 1, Len(s) - 1)) ELSE s

strip(s) == rstrip(lstrip(s))

\* clean_text without the re.sub: only the ends are trimmed
clean_text_strip_only(text) == PyStr(strip(text.v))

clean_text(text) == PyStr(strip(SubWS(text.v, 1)))

(***************************************************************************)
(* Safe JSON parsing                                                       *)
(***************************************************************************)
safe_json_parse(text) ==
  IF ~Truthy(text) THEN Return(None)
  ELSE
    LET direct == json_loads(text)
    IN IF direct.exc # "JSONDecodeError" THEN direct
       ELSE
         LET start == find(text.v, "{")
             end == rfind(text.v, "}") + 1
         IN IF start # -1 /\ end # -1
            THEN LET block == json_loads(PyStr(slice(text.v, start, end)))
                 IN IF block.exc = "JSONDecodeError" THEN Return(None) ELSE block
            ELSE Return(None)

(***************************************************************************)
(* Gemini analysis                                                         *)
(***************************************************************************)
FiveFields ==
  {K_match_score, K_resume_skills, K_job_required_skills, K_missing_skills,
   K_suggestions}

\* the record both failure paths return, with its suggestions text
DefaultResult(suggestions) ==
  PyDict([k \in FiveFields |->
            IF k = K_match_score THEN PyInt(0)
            ELSE IF k = K_suggestions THEN PyStr(suggestions)
            ELSE PyList(<< >>)])

BuildPrompt(rt, jt) == PyStr(PromptHead \o rt.v \o PromptMid \o jt.v \o PromptTail)

\* str(e) of an exception raised inside the try block
ExcText(out) ==
  IF out.exc = "TypeError" THEN TypeErrorText ELSE out.msg

\* analyze_try without the "if parsed is None" check
analyze_try_unchecked(call) ==
  IF call.exc # "none"
  THEN DefaultResult(AnalysisFailedText \o ExcText(call))
  ELSE
    LET p == safe_json_parse(call.v)
    IN IF p.exc # "none" THEN DefaultResult(AnalysisFailedText \o ExcText(p))
       ELSE p.v

\* the try/except of analyze_with_gemini, given how generate_content ended:
\* call = [exc, v, msg], v the reply's text when exc = "none", msg = str(e)
analyze_try(call) ==
  IF call.exc # "none"
  THEN DefaultResult(AnalysisFailedText \o ExcText(call))
  ELSE
    LET p == safe_json_parse(call.v)
    IN IF p.exc # "none" THEN DefaultResult(AnalysisFailedText \o ExcText(p))
       ELSE IF p.v = None THEN DefaultResult(AnalysisFailedText \o InvalidJsonText)
       ELSE p.v

(***************************************************************************)
(* Results rendering: what the script shows for a result                   *)
(***************************************************************************)
Iterable(x) == x.t \in {"list", "str", "dict"}

Render(r) ==
  IF r.t # "dict" THEN "TypeError"
  ELSE IF K_match_score \notin DOMAIN r.v THEN "KeyError"
  ELSE IF K_resume_skills \notin DOMAIN r.v THEN "KeyError"
  ELSE IF ~Iterable(r.v[K_resume_skills]) THEN "TypeError"
  ELSE IF K_missing_skills \notin DOMAIN r.v THEN "KeyError"
  ELSE IF ~Iterable(r.v[K_missing_skills]) THEN "TypeError"
  ELSE IF K_suggestions \notin DOMAIN r.v THEN "KeyError"
  ELSE "results"

(***************************************************************************)
(* Inputs: environment, uploads, job descriptions, LLM replies and errors  *)
(***************************************************************************)
MaxParseLen == 4
MaxCleanLen == 4
MaxRunnerFrames == 1

SeqsUpTo(S, n) == UNION {[1..k -> S] : k \in 0..n}

ApiKeys == {None, PyStr(<< >>), PyStr(<<"k">>)}

HereYouGo ==
  <<"H","e","r","e"," ","y","o","u"," ","g","o",":","\n">>
Thanks ==
  <<"\n","T","h","a","n","k","s","!">>
NotJsonAtAll ==
  <<"n","o","t"," ","j","s","o","n"," ","a","t"," ","a","l","l">>
ImproveY ==
  <<"i","m","p","r","o","v","e"," ","y">>
UseBraces ==
  <<"u","s","e"," ","{","y","}">>
TimedOut ==
  <<"t","i","m","e","d"," ","o","u","t">>
QuotaExceeded ==
  <<"4","2","9"," ","q","u","o","t","a"," ","e","x","c","e","e","d","e","d">>
PythonSql ==
  <<"P","y","t","h","o","n",","," ","S","Q","L">>
RequiresPython ==
  <<"R","e","q","u","i","r","e","s"," ","P","y","t","h","o","n">>

PdfMime == "application/pdf"
DocxMime == "application/vnd.openxmlformats-officedocument.wordprocessingml.document"

Files ==
  {[type |-> PdfMime, opens |-> TRUE, parts |-> <<PythonSql, PythonSql>>],
   [type |-> PdfMime, opens |-> TRUE, parts |-> << >>],
   [type |-> PdfMime, opens |-> FALSE, parts |-> << >>],
   [type |-> DocxMime, opens |-> TRUE, parts |-> <<PythonSql, <<"x">>>>],
   [type |-> DocxMime, opens |-> TRUE, parts |-> <<<<" ">>, << >>>>],
   [type |-> DocxMime, opens |-> FALSE, parts |-> << >>]}

\* what st.file_uploader returns: None or an uploaded file
Uploads == {None} \cup {[t |-> "file", file |-> f] : f \in Files}

\* what st.text_area returns
JobDescriptions == {<< >>, <<" ">>, <<"\n", " ">>, RequiresPython, <<" ">> \o RequiresPython \o <<"\n">>}

Q(s) == <<"\"">> \o s \o <<"\"">>
Member(k, val) == Q(k) \o <<":", " ">> \o val

\* the five-field object of the parser examples, with a given suggestions text
FiveFieldObject(sugg) ==
  <<"{">> \o Member(K_match_score, <<"5", "0">>) \o <<",", " ">>
    \o Member(K_resume_skills, <<"[">> \o Q(<<"x">>) \o <<"]">>) \o <<",", " ">>
    \o Member(K_job_required_skills,
              <<"[">> \o Q(<<"x">>) \o <<",">> \o Q(<<"y">>) \o <<"]">>) \o <<",", " ">>
    \o Member(K_missing_skills, <<"[">> \o Q(<<"y">>) \o <<"]">>) \o <<",", " ">>
    \o Member(K_suggestions, Q(sugg)) \o <<"}">>

\* the value that object denotes
FiveFieldValue(sugg) ==
  PyDict([k \in FiveFields |->
            IF k = K_match_score THEN PyInt(50)
            ELSE IF k = K_resume_skills THEN PyList(<<PyStr(<<"x">>)>>)
            ELSE IF k = K_job_required_skills
              THEN PyList(<<PyStr(<<"x">>), PyStr(<<"y">>)>>)
            ELSE IF k = K_missing_skills THEN PyList(<<PyStr(<<"y">>)>>)
            ELSE PyStr(sugg)])

WellFormedObjects == {FiveFieldObject(ImproveY), FiveFieldObject(UseBraces)}

ReplyBodies ==
  WellFormedObjects \cup
  {<<"{">> \o Member(K_match_score, <<"6", "7">>) \o <<"}">>,
   <<"{">> \o Member(K_match_score, <<"6", "7">>) \o <<",", " ">>
     \o Member(K_resume_skills, <<"1">>) \o <<"}">>,
   <<"{", "}">>,
   <<"n", "u", "l", "l">>,
   <<"6", "7">>,
   <<"[", "]">>,
   Q(ImproveY),
   NotJsonAtAll,
   << >>}

\* n copies of the text w, one after the other
Repeat(w, n) == [i \in 1..(n * Len(w)) |-> w[((i - 1) % Len(w)) + 1]]

\* replies that open RecursionLimit containers and close none: arrays, arrays
\* with a space after each bracket, objects under a key
DeepArray == Repeat(<<"[">>, RecursionLimit)
DeepSpacedArray == Repeat(<<"[", " ">>, RecursionLimit)
DeepObject == Repeat(<<"{", "\"", "a", "\"", ":">>, RecursionLimit)

\* a reply that is not JSON as a whole and whose brace block opens
\* RecursionLimit arrays
DeepInBlock == <<"x", "{", "\"", "a", "\"", ":">> \o DeepArray \o <<"}">>

\* replies that open arrays up to two or three short of what the decoder's
\* own frames leave of the limit: whether they exhaust the limit depends on
\* the frames already on the stack
NearLimitArrays == {Repeat(<<"[">>, RecursionLimit - DecoderFrames - k) : k \in 2..3}

DeepTexts == {DeepArray, DeepSpacedArray, DeepObject, DeepInBlock} \cup NearLimitArrays

\* replies that are an integer of the most digits int() converts and of one
\* digit more, and a reply whose brace block holds the latter
LongestInteger == Repeat(<<"1">>, IntMaxStrDigits)
LongInteger == Repeat(<<"1">>, IntMaxStrDigits + 1)
LongInBlock == <<"x", "{", "\"", "a", "\"", ":">> \o LongInteger \o <<"}">>

\* replies that are a number with an exponent: one a double holds exactly,
\* two it rounds (2^53 + 1, 10^23) and one above every double
FloatTexts ==
  {<<"5", "e", "1">>,
   <<"9", "0", "0", "7", "1", "9", "9", "2", "5", "4", "7", "4", "0", "9", "9", "3",
     "e", "0">>,
   <<"1", "E", "2", "3">>,
   <<"1", "e", "4", "0", "0">>}

NumberTexts == {LongestInteger, LongInteger, LongInBlock} \cup FloatTexts

\* text before and after the body; none of it contains a brace
ReplyPrefixes == {<< >>, <<" ">>, HereYouGo, <<"[">>, DeepArray, LongInteger}
ReplySuffixes == {<< >>, <<"\n">>, Thanks, <<"]">>}

\* response.text: None when the reply carries no text part
ReplyTexts ==
  {None} \cup {PyStr(s) : s \in DeepTexts \cup NumberTexts} \cup
  {PyStr(p \o b \o s) : p \in ReplyPrefixes, b \in ReplyBodies, s \in ReplySuffixes}

\* str(e) of the errors generate_content raises
LlmErrors == {TimedOut, QuotaExceeded, << >>}

ParseAlphabet == {"{", "}", "[", "]", "1", " ", "x", "\""}
ParseInputs == ReplyTexts \cup {PyStr(s) : s \in SeqsUpTo(ParseAlphabet, MaxParseLen)}

CleanAlphabet == {"a", "b", " ", "\t", "\n"}
CleanInputs == {PyStr(s) : s \in SeqsUpTo(CleanAlphabet, MaxCleanLen)}

(***************************************************************************)
(* Gemini configuration (module level, lines 16-25)                        *)
(***************************************************************************)
GenaiClient == [t |-> "Client"]

\* api_key is os.environ.get("GOOGLE_API_KEY"); constructs says whether
\* genai.Client(api_key=...) returns rather than raises
Configure(api_key, constructs) ==
  IF ~Truthy(api_key) THEN None
  ELSE IF ~constructs THEN None
  ELSE GenaiClient

\* the values client can have after lines 16-25
Clients == {Configure(k, c) : k \in ApiKeys, c \in BOOLEAN}

\* lines 11-25 are module-level code: every run of the script reads the key
\* and builds the client anew
Configures == client' \in Clients

\* the frames of whatever runs the script, below the module's own
RunnerFrames == 0..MaxRunnerFrames

\* frames on the stack where the script calls safe_json_parse: the runner's,
\* the module's and the one of analyze_with_gemini
ScriptFrames == {r + 2 : r \in RunnerFrames}

\* frames on the stack where safe_json_parse is called on its own: the
\* runner's and the caller's
CallerFrames == {r + 1 : r \in RunnerFrames}

(***************************************************************************)
(* The script: one run per user interaction                                *)
(***************************************************************************)
\* if resume_file and job_description
PipelineRuns(upload, jd) == upload # None /\ Truthy(jd)

Extract(upload) ==
  IF upload.file.type = PdfMime
  THEN extract_pdf_text(upload.file)
  ELSE extract_docx_text(upload.file)

CanRun == pc \in {"ready", "done"}

Init ==
  /\ client \in Clients
  /\ frames \in ScriptFrames
  /\ pc = "ready"
  /\ resume_file = None
  /\ job_description = PyStr(<< >>)
  /\ resume_text = Unset
  /\ jd_text = Unset
  /\ prompt = Unset
  /\ llm_calls = 0
  /\ response = Unset
  /\ parsed = Unset
  /\ result = Unset
  /\ screen = "none"

\* the file or the job description is absent: the else branch
ShowInfo ==
  /\ CanRun
  /\ Configures
  /\ \E u \in Uploads, jd \in JobDescriptions :
       /\ ~PipelineRuns(u, PyStr(jd))
       /\ resume_file' = u
       /\ job_description' = PyStr(jd)
  /\ resume_text' = Unset
  /\ jd_text' = Unset
  /\ prompt' = Unset
  /\ llm_calls' = 0
  /\ response' = Unset
  /\ parsed' = Unset
  /\ result' = Unset
  /\ screen' = "info"
  /\ pc' = "done"
  /\ UNCHANGED frames

\* the document cannot be opened: the extractor's exception ends the run
ExtractionFails ==
  /\ CanRun
  /\ Configures
  /\ \E u \in Uploads, jd \in JobDescriptions :
       /\ PipelineRuns(u, PyStr(jd))
       /\ Extract(u).exc # "none"
       /\ resume_file' = u
       /\ job_description' = PyStr(jd)
       /\ screen' = Extract(u).exc
  /\ resume_text' = Unset
  /\ jd_text' = Unset
  /\ prompt' = Unset
  /\ llm_calls' = 0
  /\ response' = Unset
  /\ parsed' = Unset
  /\ result' = Unset
  /\ pc' = "done"
  /\ UNCHANGED frames

\* AnalyzeNotInitialized without the "if client is None" return: the prompt
\* is built and None.models raises inside the try block
AnalyzeNotInitialized_unguarded ==
  /\ CanRun
  /\ Configures
  /\ client' = None
  /\ \E u \in Uploads, jd \in JobDescriptions :
       /\ PipelineRuns(u, PyStr(jd))
       /\ Extract(u).exc = "none"
       /\ resume_file' = u
       /\ job_description' = PyStr(jd)
       /\ resume_text' = clean_text(Extract(u).v)
       /\ jd_text' = clean_text(PyStr(jd))
  /\ prompt' = BuildPrompt(resume_text', jd_text')
  /\ llm_calls' = 0
  /\ response' = Unset
  /\ parsed' = Unset
  /\ result' = DefaultResult(AnalysisFailedText \o NoneHasNoModelsText)
  /\ screen' = Render(result')
  /\ pc' = "done"
  /\ UNCHANGED frames

\* analyze_with_gemini with client None: the default record, then rendering
AnalyzeNotInitialized ==
  /\ CanRun
  /\ Configures
  /\ client' = None
  /\ \E u \in Uploads, jd \in JobDescriptions :
       /\ PipelineRuns(u, PyStr(jd))
       /\ Extract(u).exc = "none"
       /\ resume_file' = u
       /\ job_description' = PyStr(jd)
       /\ resume_text' = clean_text(Extract(u).v)
       /\ jd_text' = clean_text(PyStr(jd))
  /\ prompt' = Unset
  /\ llm_calls' = 0
  /\ response' = Unset
  /\ parsed' = Unset
  /\ result' = DefaultResult(NotInitializedText)
  /\ screen' = Render(result')
  /\ pc' = "done"
  /\ UNCHANGED frames

\* analyze_with_gemini with a client: the prompt is built and sent, and the
\* run blocks in generate_content
SendPrompt ==
  /\ CanRun
  /\ Configures
  /\ client' # None
  /\ frames' \in ScriptFrames
  /\ \E u \in Uploads, jd \in JobDescriptions :
       /\ PipelineRuns(u, PyStr(jd))
       /\ Extract(u).exc = "none"
       /\ resume_file' = u
       /\ job_description' = PyStr(jd)
       /\ resume_text' = clean_text(Extract(u).v)
       /\ jd_text' = clean_text(PyStr(jd))
  /\ prompt' = BuildPrompt(resume_text', jd_text')
  /\ llm_calls' = 1
  /\ response' = Unset
  /\ parsed' = Unset
  /\ result' = Unset
  /\ screen' = "spinner"
  /\ pc' = "calling"

\* generate_content returns: the reply is parsed, the record returned and rendered
GenerateContentReturns ==
  /\ pc = "calling"
  /\ \E text \in ReplyTexts :
       /\ response' = [exc |-> "none", v |-> text, msg |-> << >>]
       /\ parsed' = safe_json_parse(text)
  /\ result' = analyze_try(response')
  /\ screen' = Render(result')
  /\ pc' = "done"
  /\ UNCHANGED <<client, frames, resume_file, job_description, resume_text, jd_text,
                 prompt, llm_calls>>

\* GenerateContentRaises with one retry: the first error sends the prompt again
GenerateContentRaises_retry ==
  /\ pc = "calling"
  /\ \E m \in LlmErrors :
       response' = [exc |-> "APIError", v |-> None, msg |-> m]
  /\ parsed' = Unset
  /\ IF llm_calls < 2
     THEN /\ llm_calls' = llm_calls + 1
          /\ UNCHANGED <<result, screen, pc>>
     ELSE /\ result' = analyze_try(response')
          /\ screen' = Render(result')
          /\ pc' = "done"
          /\ UNCHANGED llm_calls
  /\ UNCHANGED <<client, frames, resume_file, job_description, resume_text, jd_text,
                 prompt>>

\* generate_content raises: the except branch returns the default record
GenerateContentRaises ==
  /\ pc = "calling"
  /\ \E m \in LlmErrors :
       response' = [exc |-> "APIError", v |-> None, msg |-> m]
  /\ parsed' = Unset
  /\ result' = analyze_try(response')
  /\ screen' = Render(result')
  /\ pc' = "done"
  /\ UNCHANGED <<client, frames, resume_file, job_description, resume_text, jd_text,
                 prompt, llm_calls>>

Next ==
  \/ ShowInfo
  \/ ExtractionFails
  \/ AnalyzeNotInitialized
  \/ SendPrompt
  \/ GenerateContentReturns
  \/ GenerateContentRaises

Spec == Init /\ [][Next]_vars

(***************************************************************************)
(* safe_json_parse alone: response holds the argument, parsed the outcome  *)
(***************************************************************************)
InitParse ==
  /\ client = None
  /\ frames \in CallerFrames
  /\ pc = "parse_call"
  /\ resume_file = None
  /\ job_description = PyStr(<< >>)
  /\ resume_text = Unset
  /\ jd_text = Unset
  /\ prompt = Unset
  /\ llm_calls = 0
  /\ response \in ParseInputs
  /\ parsed = Unset
  /\ result = Unset
  /\ screen = "none"

ParseApply ==
  /\ pc = "parse_call"
  /\ parsed' = safe_json_parse(response)
  /\ pc' = "parse_done"
  /\ UNCHANGED <<client, frames, resume_file, job_description, resume_text, jd_text,
                 prompt, llm_calls, response, result, screen>>

NextParse == ParseApply

SpecParse == InitParse /\ [][NextParse]_vars

(***************************************************************************)
(* clean_text alone: job_description holds the argument, jd_text the value *)
(***************************************************************************)
InitClean ==
  /\ client = None
  /\ frames = 1
  /\ pc = "clean_call"
  /\ resume_file = None
  /\ job_description \in CleanInputs
  /\ resume_text = Unset
  /\ jd_text = Unset
  /\ prompt = Unset
  /\ llm_calls = 0
  /\ response = Unset
  /\ parsed = Unset
  /\ result = Unset
  /\ screen = "none"

CleanApply ==
  /\ pc = "clean_call"
  /\ jd_text' = clean_text(job_description)
  /\ pc' = "clean_done"
  /\ UNCHANGED <<client, frames, resume_file, job_description, resume_text, prompt,
                 llm_calls, response, parsed, result, screen>>

NextClean == CleanApply

SpecClean == InitClean /\ [][NextClean]_vars

(***************************************************************************)
(* Properties                                                              *)
(***************************************************************************)
\* analyze_with_gemini was called in the current run
Invoked == jd_text # Unset

\* the LLM call of the current run has ended, by a reply or by an error
CallEnded == response # Unset

\* r is exactly the default record with the given suggestions text
IsDefaultRecord(r, sugg) ==
  /\ r.t = "dict"
  /\ DOMAIN r.v = FiveFields
  /\ r.v[K_match_score] = PyInt(0)
  /\ r.v[K_resume_skills] = PyList(<< >>)
  /\ r.v[K_job_required_skills] = PyList(<< >>)
  /\ r.v[K_missing_skills] = PyList(<< >>)
  /\ r.v[K_suggestions] = PyStr(sugg)

HasFiveFields(r) == r.t = "dict" /\ FiveFields \subseteq DOMAIN r.v

\* C1: every record analyze_with_gemini returns has all five fields, whatever
\* the client state and the LLM reply, so rendering finds every field it reads.
C1_FiveFieldsAlways ==
  result # Unset => (HasFiveFields(result) /\ screen = "results")

\* C2: with a configured client, when the LLM call raises or the parser yields
\* no result, the returned record is the default one, its suggestions being
\* "Analysis failed: " followed by the error description.
C2_FailureGivesDefault ==
  (pc = "done" /\ client # None /\ CallEnded
     /\ (response.exc # "none" \/ parsed = Return(None)))
  => IsDefaultRecord(result,
       AnalysisFailedText \o
         (IF response.exc # "none" THEN response.msg ELSE InvalidJsonText))

C2_Witness ==
  /\ pc = "done"
  /\ CallEnded
  /\ response.exc # "none"
  /\ response.msg = TimedOut
  /\ IsDefaultRecord(result, AnalysisFailedText \o TimedOut)

\* C3: with the client unset every call of analyze_with_gemini returns exactly
\* the "Gemini client not initialized." default record, and no prompt is built
\* and no LLM call made.
C3_UnsetClientDefault ==
  (client = None /\ Invoked)
  => /\ IsDefaultRecord(result, NotInitializedText)
     /\ prompt = Unset
     /\ llm_calls = 0
     /\ ~CallEnded

C3_Witness ==
  /\ client = None
  /\ Invoked
  /\ Truthy(resume_text)
  /\ Truthy(jd_text)
  /\ IsDefaultRecord(result, NotInitializedText)

\* the reply is the five-field object with suggestions g between p and s
ReplyWraps(p, g, s) ==
  /\ CallEnded
  /\ response.exc = "none"
  /\ response.v = PyStr(p \o FiveFieldObject(g) \o s)

Blank(s) == \A i \in 1..Len(s) : s[i] \in JsonWS

\* C4: a reply holding a well-formed five-field object, alone or between
\* brace-free text, yields exactly that object's five values.
C4_WrappedObjectReturned ==
  \A p \in ReplyPrefixes, s \in ReplySuffixes, g \in {ImproveY, UseBraces} :
    (pc = "done" /\ ReplyWraps(p, g, s))
    => (result = FiveFieldValue(g) /\ screen = "results")

\* where the strict parse of the whole reply ends in a JSONDecodeError, or the
\* surrounding text is whitespace only, the object's five values are returned
WrappedObjectReturnedWhenStrictParseFails ==
  \A p \in ReplyPrefixes, s \in ReplySuffixes, g \in {ImproveY, UseBraces} :
    (pc = "done" /\ ReplyWraps(p, g, s)
       /\ ((Blank(p) /\ Blank(s)) \/ json_loads(response.v).exc = "JSONDecodeError"))
    => (result = FiveFieldValue(g) /\ screen = "results")

\* C5: safe_json_parse never raises, and returns None for absent or empty input.
C5_NeverRaises ==
  pc = "parse_done"
  => /\ parsed.exc = "none"
     /\ (~Truthy(response) => parsed.v = None)

\* positions (1-based) of the first "{" and of the last "}" of s, 0 if none
FirstOpen(s) ==
  IF \E i \in 1..Len(s) : s[i] = "{"
  THEN CHOOSE i \in 1..Len(s) : s[i] = "{" /\ \A j \in 1..Len(s) : s[j] = "{" => i <= j
  ELSE 0

LastClose(s) ==
  IF \E i \in 1..Len(s) : s[i] = "}"
  THEN CHOOSE i \in 1..Len(s) : s[i] = "}" /\ \A j \in 1..Len(s) : s[j] = "}" => j <= i
  ELSE 0

\* the outcome the fallback is said to have on s
BraceBlockOutcome(s) ==
  IF FirstOpen(s) > 0 /\ LastClose(s) > 0
       /\ decode(SubSeq(s, FirstOpen(s), LastClose(s))).exc = "none"
  THEN decode(SubSeq(s, FirstOpen(s), LastClose(s)))
  ELSE Return(None)

\* C6: for a non-empty string that is not valid JSON as a whole, the result is
\* the value of the substring from the first "{" to the last "}" inclusive when
\* both exist and it is valid JSON, and None in every other case.
C6_FallbackParsesBraceBlock ==
  (pc = "parse_done" /\ Truthy(response) /\ json_loads(response).exc # "none")
  => parsed = BraceBlockOutcome(response.v)

\* What does hold of the fallback: the same, for the strings whose strict parse
\* ends in a JSONDecodeError and on which safe_json_parse returns (the decoder
\* does not run out of recursion depth, on the string or on its brace block).
FallbackParsesBraceBlockWhenDecodeFails ==
  (pc = "parse_done" /\ Truthy(response)
     /\ json_loads(response).exc = "JSONDecodeError"
     /\ parsed.exc = "none")
  => parsed = BraceBlockOutcome(response.v)

\* C7: analyze_with_gemini is only invoked with both normalized texts
\* non-empty; with the file or the job description absent nothing is called
\* and the prompt to supply both is shown.
C7_BothTextsNonEmpty ==
  /\ Invoked => (Truthy(resume_text) /\ Truthy(jd_text))
  /\ (pc = "done" /\ (resume_file = None \/ ~Truthy(job_description)))
     => (screen = "info" /\ ~Invoked /\ resume_text = Unset /\ llm_calls = 0)

\* s has no run of whitespace longer than one character
NoLongRun(s) == \A i \in 1..(Len(s) - 1) : ~(s[i] \in PyWS /\ s[i + 1] \in PyWS)

\* C8 as stated: without whitespace runs longer than one, clean_text only
\* removes the leading and trailing whitespace.
C8_OnlyTrimmed ==
  (pc = "clean_done" /\ NoLongRun(job_description.v))
  => jd_text.v = strip(job_description.v)

\* C8 amended: without whitespace runs longer than one, clean_text removes the
\* leading and trailing whitespace and turns each interior whitespace
\* character into a space; every other character is unchanged.
C8_TrimmedAndSpaced ==
  (pc = "clean_done" /\ NoLongRun(job_description.v))
  => LET t == strip(job_description.v)
     IN /\ Len(jd_text.v) = Len(t)
        /\ \A i \in 1..Len(t) :
             jd_text.v[i] = IF t[i] \in PyWS THEN " " ELSE t[i]

C8_Witness ==
  /\ pc = "clean_done"
  /\ job_description = PyStr(<<" ", "a", "\t", "b">>)
  /\ jd_text = PyStr(<<"a", " ", "b">>)

\* C9: an invocation with a configured client makes exactly one LLM call; once
\* that call has ended, by a reply or an error, the invocation has returned a
\* record and the call is not repeated.
C9_SingleAttempt ==
  (client # None /\ Invoked)
  => /\ llm_calls = 1
     /\ CallEnded => (pc = "done" /\ result # Unset)

C9_Witness ==
  /\ pc = "done"
  /\ client # None
  /\ CallEnded
  /\ response.exc # "none"
  /\ llm_calls = 1
  /\ result # Unset

\* C10: a reply whose whole-string parse succeeds, the literal null included,
\* is returned as parsed and never reported as "Invalid JSON returned by Gemini".
C10_ValidJsonNotAFailure ==
  (pc = "done" /\ CallEnded /\ response.exc = "none"
     /\ json_loads(response.v).exc = "none")
  => /\ result = json_loads(response.v).v
     /\ ~IsDefaultRecord(result, AnalysisFailedText \o InvalidJsonText)

====
